---- MODULE Spec2Model ----
(***************************************************************************)
(* Model of the lawsuit scanner: the CourtListenerScanner class            *)
(* (courtlistener-scanner.js) and the Express scan routes of server.js.    *)
(* JavaScript runs each handler atomically between two awaits, so every    *)
(* action below is the code of one handler from one await to the next.     *)
(***************************************************************************)
EXTENDS Integers, Sequences, FiniteSets, TLC

(***************************************************************************)
(* Bounds of the model.                                                    *)
(***************************************************************************)
MaxRuns == 2        \* scan requests the server receives
MaxFound == 2       \* case records the external API returns, over all searches
MaxFailures == 1    \* failed external searches, and failed database queries
MaxCases == 3       \* case records in the batches handed to formatResults directly

Runs == 1..MaxRuns

\* JavaScript's undefined, for a field the API left out.
Undefined == <<"<undefined>">>
\* JavaScript numbers: a finite value, or NaN.
Num(n) == [nan |-> FALSE, t |-> n]
NaN == [nan |-> TRUE, t |-> 0]
\* a - b
Minus(a, b) == IF a.nan \/ b.nan THEN NaN ELSE Num(a.t - b.t)

(***************************************************************************)
(* companies.json: the roster.  The file is data outside the sources; the  *)
(* model draws the roster from a few rosters of the documented shape       *)
(* {id, name, legalNames, priority}.                                       *)
(***************************************************************************)
Acme == [id |-> "acme", name |-> "Acme", legalNames |-> <<"Acme Inc", "Acme Corp">>,
         priority |-> "high"]
Beta == [id |-> "beta", name |-> "Beta", legalNames |-> <<"Beta LLC">>,
         priority |-> "low"]
Shell == [id |-> "shell", name |-> "Shell", legalNames |-> <<>>,
          priority |-> "medium"]

Rosters == { <<>>, <<Acme, Beta>>, <<Shell, Beta>> }

\* Values of req.body.companyId: absent, or an id (of a roster that may not be
\* the one loaded).
CompanyIds == { "", "acme", "beta", "shell" }

(***************************************************************************)
(* Case records as the search API returns them.  Text is a sequence of     *)
(* words; dateFiled is a date string, or undefined.                        *)
(***************************************************************************)
CaseA == [docket_id |-> 1, caseName |-> <<"Smith", "v", "Acme">>,
          docketNumber |-> <<"1:24-cv-1">>, court |-> "cand", dateFiled |-> "2024-01-10",
          cause |-> <<"Antitrust">>, docket_absolute_url |-> "/docket/1/"]
\* the same docket, seen later with an amended cause
CaseA2 == [docket_id |-> 1, caseName |-> <<"Smith", "v", "Acme">>,
           docketNumber |-> <<"1:24-cv-1">>, court |-> "cand", dateFiled |-> "2024-01-10",
           cause |-> <<"class", "action", "antitrust">>,
           docket_absolute_url |-> "/docket/1/"]
CaseB == [docket_id |-> 2, caseName |-> <<"Doe", "v", "Beta">>,
          docketNumber |-> Undefined, court |-> "nysd", dateFiled |-> "<undefined>",
          cause |-> Undefined, docket_absolute_url |-> "/docket/2/"]

CasePool == { CaseA, CaseA2, CaseB }

\* More records, for the direct calls of the scanner's methods: no keyword
\* and a date, one keyword and a dateFiled that is no date.
CaseC == [docket_id |-> 3, caseName |-> <<"Doe", "v", "Beta">>,
          docketNumber |-> <<"1:24-cv-3">>, court |-> "nysd", dateFiled |-> "2024-01-12",
          cause |-> Undefined, docket_absolute_url |-> "/docket/3/"]
CaseD == [docket_id |-> 4, caseName |-> <<"Doe", "v", "Acme">>,
          docketNumber |-> <<"1:24-cv-4">>, court |-> "cand", dateFiled |-> "2024-01-10",
          cause |-> Undefined, docket_absolute_url |-> "/docket/4/"]
CaseE == [docket_id |-> 5, caseName |-> <<"Smith", "v", "Beta">>,
          docketNumber |-> <<"1:24-cv-5">>, court |-> "nysd", dateFiled |-> "pending",
          cause |-> <<"Privacy">>, docket_absolute_url |-> "/docket/5/"]

\* filed on the day of CaseD, with the same priority
CaseF == [docket_id |-> 6, caseName |-> <<"Roe", "v", "Acme">>,
          docketNumber |-> <<"1:24-cv-6">>, court |-> "cand", dateFiled |-> "2024-01-10",
          cause |-> Undefined, docket_absolute_url |-> "/docket/6/"]

ScanPool == CasePool \cup { CaseC, CaseD, CaseE, CaseF }

\* Case records by their three text fields, for analyzeCase.
CaseNames == { Undefined, <<"Doe", "v", "Beta">>, <<"Class">> }
DocketNumbers == { Undefined, <<"1:24-cv-1">>, <<"Action">> }
Causes == { Undefined, <<"Antitrust">>, <<"class", "action", "antitrust">>, <<"action">>,
            <<"Patent", "and", "copyright", "and", "trademark">> }

AnalyzeInputs ==
    { [CaseA EXCEPT !.caseName = caseName, !.docketNumber = docketNumber, !.cause = cause] :
        caseName \in CaseNames, docketNumber \in DocketNumbers, cause \in Causes }

\* The result lists a search may return: up to n records of the pool, no
\* docket twice in one response.
RECURSIVE SeqsUpTo(_, _)
SeqsUpTo(S, n) ==
    IF n = 0 THEN { <<>> }
    ELSE LET shorter == SeqsUpTo(S, n - 1)
         IN  shorter \cup
             { Append(s, x) : <<s, x>> \in
                 { p \in { t \in shorter : Len(t) = n - 1 } \X S :
                     \A i \in 1..Len(p[1]) : p[1][i].docket_id # p[2].docket_id } }

(***************************************************************************)
(* analyzeCase                                                             *)
(***************************************************************************)
interestingKeywords ==
    << <<"antitrust">>, <<"class", "action">>, <<"sexual", "harassment">>,
       <<"discrimination">>, <<"trade", "secrets">>, <<"intellectual", "property">>,
       <<"copyright">>, <<"trademark">>, <<"patent">>, <<"employment">>,
       <<"wrongful", "termination">>, <<"securities", "fraud">>,
       <<"consumer", "protection">>, <<"privacy">>, <<"data", "breach">>,
       <<"loot", "box">>, <<"gambling">>, <<"unfair", "business", "practices">> >>

\* String.prototype.toLowerCase on one word.
ToLowerWord(w) ==
    CASE w = "Antitrust" -> "antitrust"
      [] w = "Smith" -> "smith"
      [] w = "Acme" -> "acme"
      [] w = "Doe" -> "doe"
      [] w = "Beta" -> "beta"
      [] w = "Class" -> "class"
      [] w = "Action" -> "action"
      [] w = "Patent" -> "patent"
      [] w = "Privacy" -> "privacy"
      [] OTHER -> w

toLowerCase(text) == [i \in 1..Len(text) |-> ToLowerWord(text[i])]

\* `x || ''` on a text field.  Text is the sequence of its words, the string
\* split at its spaces, so the empty string is the one empty word, and the
\* template `${a} ${b} ${c}` is the concatenation of the three sequences.
OrEmpty(x) == IF x = Undefined THEN <<"">> ELSE x

\* String.prototype.includes, on words.
includes(text, keyword) ==
    \E i \in 0..(Len(text) - Len(keyword)) :
        \A j \in 1..Len(keyword) : text[i + j] = keyword[j]

\* an analyzeCase that matches the keywords against the text as written
analyzeCaseAsWritten(caseData) ==
    LET caseText == OrEmpty(caseData.caseName) \o OrEmpty(caseData.docketNumber)
                    \o OrEmpty(caseData.cause)
        Hit(keyword) == includes(caseText, toLowerCase(keyword))
        foundKeywords == SelectSeq(interestingKeywords, Hit)
    IN  [ isInteresting |-> Len(foundKeywords) > 0,
          keywords |-> foundKeywords,
          priority |-> IF Len(foundKeywords) >= 2 THEN "high"
                       ELSE IF Len(foundKeywords) = 1 THEN "medium" ELSE "low" ]

\* an analyzeCase that calls a case interesting from two keywords on
analyzeCaseInterestingFromTwo(caseData) ==
    LET caseText == toLowerCase(OrEmpty(caseData.caseName) \o OrEmpty(caseData.docketNumber)
                                \o OrEmpty(caseData.cause))
        Hit(keyword) == includes(caseText, toLowerCase(keyword))
        foundKeywords == SelectSeq(interestingKeywords, Hit)
    IN  [ isInteresting |-> Len(foundKeywords) >= 2,
          keywords |-> foundKeywords,
          priority |-> IF Len(foundKeywords) >= 2 THEN "high"
                       ELSE IF Len(foundKeywords) = 1 THEN "medium" ELSE "low" ]

analyzeCase(caseData) ==
    LET caseText == toLowerCase(OrEmpty(caseData.caseName) \o OrEmpty(caseData.docketNumber)
                                \o OrEmpty(caseData.cause))
        Hit(keyword) == includes(caseText, toLowerCase(keyword))
        \* Array.prototype.filter keeps the list order
        foundKeywords == SelectSeq(interestingKeywords, Hit)
    IN  [ isInteresting |-> Len(foundKeywords) > 0,
          keywords |-> foundKeywords,
          priority |-> IF Len(foundKeywords) >= 2 THEN "high"
                       ELSE IF Len(foundKeywords) = 1 THEN "medium" ELSE "low" ]

(***************************************************************************)
(* formatResults                                                           *)
(***************************************************************************)
\* new Date(x) as a number: the day of a date string, NaN for anything else.
DateValue(x) ==
    CASE x = "2024-01-10" -> Num(10)
      [] x = "2024-01-12" -> Num(12)
      [] OTHER -> NaN

priorityOrder(p) == CASE p = "high" -> 0 [] p = "medium" -> 1 [] p = "low" -> 2

\* the comparator handed to formatted.sort
comparefn(a, b) ==
    LET priorityDiff == priorityOrder(a.analysis.priority) - priorityOrder(b.analysis.priority)
    IN  IF priorityDiff # 0 THEN Num(priorityDiff)
        ELSE Minus(DateValue(b.dateFiled), DateValue(a.dateFiled))

\* Array.prototype.sort reads a NaN from the comparator as +0.
SortCompare(a, b) == LET v == comparefn(a, b) IN IF v.nan THEN 0 ELSE v.t

Reverse(s) == [i \in 1..Len(s) |-> s[Len(s) + 1 - i]]

\* Node's sort of a short array: the leading run (reversed when strictly
\* descending), then a binary insertion of each later element.
RECURSIVE ExtendRun(_, _, _)
ExtendRun(s, idx, isDescending) ==
    IF idx > Len(s) THEN Len(s)
    ELSE LET order == SortCompare(s[idx], s[idx - 1])
         IN  IF (isDescending /\ order >= 0) \/ (~isDescending /\ order < 0)
             THEN idx - 1
             ELSE ExtendRun(s, idx + 1, isDescending)

RECURSIVE BinarySearch(_, _, _, _)
BinarySearch(s, pivot, left, right) ==
    IF left >= right THEN left
    ELSE LET mid == left + ((right - left) \div 2)
         IN  IF SortCompare(pivot, s[mid + 1]) < 0
             THEN BinarySearch(s, pivot, left, mid)
             ELSE BinarySearch(s, pivot, mid + 1, right)

RECURSIVE BinaryInsertionSort(_, _)
BinaryInsertionSort(s, start) ==
    IF start > Len(s) THEN s
    ELSE LET pivot == s[start]
             left == BinarySearch(s, pivot, 0, start - 1)
             placed == SubSeq(s, 1, left) \o <<pivot>> \o SubSeq(s, left + 1, start - 1)
                       \o SubSeq(s, start + 1, Len(s))
         IN  BinaryInsertionSort(placed, start + 1)

sort(s) ==
    IF Len(s) < 2 THEN s
    ELSE LET isDescending == SortCompare(s[2], s[1]) < 0
             runLength == ExtendRun(s, 3, isDescending)
             run0 == IF isDescending
                     THEN Reverse(SubSeq(s, 1, runLength)) \o SubSeq(s, runLength + 1, Len(s))
                     ELSE s
         IN  BinaryInsertionSort(run0, runLength + 1)

\* one record of `formatted`
FormatCase(result, caseData) ==
    [ id |-> caseData.docket_id,
      company |-> result.company,
      companyId |-> result.companyId,
      caseName |-> caseData.caseName,
      docketNumber |-> caseData.docketNumber,
      court |-> caseData.court,
      dateFiled |-> caseData.dateFiled,
      cause |-> caseData.cause,
      url |-> "https://www.courtlistener.com" \o caseData.docket_absolute_url,
      analysis |-> analyzeCase(caseData),
      scannedAt |-> result.scannedAt ]

RECURSIVE Flatten(_)
Flatten(scanResults) ==
    IF scanResults = <<>> THEN <<>>
    ELSE LET result == Head(scanResults)
         IN  [i \in 1..Len(result.cases) |-> FormatCase(result, result.cases[i])]
             \o Flatten(Tail(scanResults))

\* a formatter that keeps one record per docket, the first in input order
formatResultsOncePerDocket(scanResults) ==
    LET f == Flatten(scanResults)
        firsts == { i \in 1..Len(f) : \A j \in 1..(i - 1) : f[j].id # f[i].id }
    IN  sort([k \in 1..Cardinality(firsts) |->
                f[CHOOSE i \in firsts : Cardinality({ j \in firsts : j < i }) = k - 1]])

formatResults(scanResults) == sort(Flatten(scanResults))

(***************************************************************************)
(* The server's state.                                                     *)
(***************************************************************************)
VARIABLES
    companies,   \* companies.json, as `require` returns it
    now,         \* the wall clock (new Date(), NOW()), in sleeps gone by
    lawsuits,    \* the rows of table lawsuits
    nextId,      \* the sequence behind lawsuits.id
    run,         \* per request: its body, the handler's locals, what it has sent
    found,       \* case records the external API has returned so far
    failures,    \* external searches and database queries that have failed so far
    scanner      \* a direct call of a CourtListenerScanner method: arguments, return

vars == <<companies, now, lawsuits, nextId, run, found, failures, scanner>>

\* no method of the scanner has been called directly
NoCall == [fn |-> "none", args |-> <<>>, ret |-> <<>>]

IdleRun ==
    [ kind |-> "none", companyId |-> "", hoursBack |-> "", pc |-> "idle",
      ci |-> 0, ni |-> 0, allCases |-> <<>>, companyCases |-> <<>>,
      formatted |-> <<>>, si |-> 0, savedCount |-> 0, out |-> <<>>,
      escaped |-> FALSE ]

\* What a handler does to the outside, in order: `out` records it.
Frame(data) == [ev |-> "frame", data |-> data]            \* res.write of one SSE frame
EndEv == [ev |-> "end"]                                   \* res.end()
JsonEv(status, body) == [ev |-> "json", status |-> status, body |-> body]  \* res.status().json()
SearchEv(ci, term) == [ev |-> "search", ci |-> ci, term |-> term]  \* fetch of /search/
ReturnEv(term, failed, n) ==                              \* how that fetch ended
    [ev |-> "returned", term |-> term, failed |-> failed, cases |-> n]
SleepEv == [ev |-> "sleep"]                               \* the sleep(1000) timer fired
QueryEv(caseId, ok) == [ev |-> "query", case_id |-> caseId, ok |-> ok]  \* pool.query returned

HoursBackInputs == { "168", "abc" }

\* ToNumber of req.body.hoursBack
ToNumber(hoursBack) ==
    CASE hoursBack = "168" -> Num(168)
      [] hoursBack = "24" -> Num(24)
      [] OTHER -> NaN

\* dateAfter.setHours(dateAfter.getHours() - hoursBack); dateAfter.toISOString():
\* a NaN makes the date invalid and toISOString throws a RangeError.  The date
\* string itself only filters what the external API returns.
DateStringThrows(hoursBack) == ToNumber(hoursBack).nan

(***************************************************************************)
(* searchCases: what it returns for each way the fetch can end.            *)
(***************************************************************************)
FetchRejects == [type |-> "reject", results |-> <<>>]     \* transport error
FetchNotOk == [type |-> "status", results |-> <<>>]       \* response.ok is false
FetchOk(results) == [type |-> "ok", results |-> results]  \* data.results

FetchFailed(outcome) == outcome.type # "ok"

\* a searchCases whose catch block throws the error on
searchCasesRethrows(outcome) ==
    IF outcome.type = "ok" THEN [threw |-> FALSE, cases |-> outcome.results]
    ELSE [threw |-> TRUE, cases |-> <<>>]

searchCases(outcome) ==
    IF outcome.type = "ok" THEN [threw |-> FALSE, cases |-> outcome.results]
    ELSE [threw |-> FALSE, cases |-> <<>>]

\* The outcomes the environment may still choose.
FetchOutcomes ==
    { FetchOk(results) : results \in SeqsUpTo(CasePool, MaxFound - found) }
    \cup (IF failures < MaxFailures THEN { FetchRejects, FetchNotOk } ELSE {})

\* the ScanBatch pushed for a non-empty result
Batch(company, legalName, cases) ==
    [ company |-> company.name, companyId |-> company.id, searchTerm |-> legalName,
      cases |-> cases, scannedAt |-> now ]

(***************************************************************************)
(* INSERT INTO lawsuits ... ON CONFLICT (case_id) DO UPDATE SET            *)
(*   scanned_at = NOW()                                                    *)
(***************************************************************************)
NewRow(lawsuit) ==
    [ id |-> nextId,
      case_id |-> ToString(lawsuit.id),
      company_id |-> lawsuit.companyId,
      company_name |-> lawsuit.company,
      case_name |-> lawsuit.caseName,
      docket_number |-> lawsuit.docketNumber,
      court |-> lawsuit.court,
      date_filed |-> lawsuit.dateFiled,
      cause |-> lawsuit.cause,
      url |-> lawsuit.url,
      priority |-> lawsuit.analysis.priority,
      keywords |-> lawsuit.analysis.keywords,
      scanned_at |-> now,
      created_at |-> now ]

Conflicts(row, lawsuit) == row.case_id = ToString(lawsuit.id)

\* an INSERT without the conflict target, into a table without the UNIQUE key
UpsertAlwaysInserts(lawsuit) == lawsuits \cup { NewRow(lawsuit) }

\* DO UPDATE SET every column = EXCLUDED.column
UpsertOverwrites(lawsuit) ==
    IF \E row \in lawsuits : Conflicts(row, lawsuit)
    THEN { IF Conflicts(row, lawsuit)
           THEN [NewRow(lawsuit) EXCEPT !.id = row.id, !.created_at = row.created_at]
           ELSE row : row \in lawsuits }
    ELSE lawsuits \cup { NewRow(lawsuit) }

Upsert(lawsuit) ==
    IF \E row \in lawsuits : Conflicts(row, lawsuit)
    THEN { IF Conflicts(row, lawsuit) THEN [row EXCEPT !.scanned_at = now] ELSE row :
           row \in lawsuits }
    ELSE lawsuits \cup { NewRow(lawsuit) }

\* a lookup that falls back to the last company of the roster
findOrLast(companyId) ==
    IF \E i \in 1..Len(companies) : companies[i].id = companyId
    THEN CHOOSE i \in 1..Len(companies) : companies[i].id = companyId
    ELSE Len(companies)

\* companies.companies.find(c => c.id === companyId): the index, 0 for undefined
find(companyId) ==
    IF \E i \in 1..Len(companies) : companies[i].id = companyId
    THEN CHOOSE i \in 1..Len(companies) :
            /\ companies[i].id = companyId
            /\ \A j \in 1..(i - 1) : companies[j].id # companyId
    ELSE 0

Init ==
    /\ companies \in Rosters
    /\ now = 0
    /\ lawsuits = {}
    /\ nextId = 1
    /\ run = [r \in Runs |-> IdleRun]
    /\ found = 0
    /\ failures = 0
    /\ scanner = NoCall

\* The await of sleep(1000) returns: the timer has fired, so time has passed.
TimerFires ==
    /\ now' = now + 1
    /\ UNCHANGED <<companies, lawsuits, nextId, found, failures, scanner>>

\* No exception has left a handler.  The handlers are async functions, and
\* Node (18+, for the native fetch) ends the process on an unhandled rejection.
Alive == \A q \in Runs : ~run[q].escaped

\* Requests are numbered in the order they arrive.
Arrives(r) ==
    /\ Alive
    /\ run[r].pc = "idle"
    /\ \A q \in 1..(r - 1) : run[q].pc # "idle"

\* The handler of request r is suspended at an await.
Awaits(r, kind, pc) ==
    /\ Alive
    /\ run[r].kind = kind
    /\ run[r].pc = pc

\* The await of searchCases returns: the environment picks how the fetch ended.
FetchReturns(outcome) ==
    /\ outcome \in FetchOutcomes
    /\ found' = found + Len(outcome.results)
    /\ failures' = IF FetchFailed(outcome) THEN failures + 1 ELSE failures
    /\ UNCHANGED <<companies, now, lawsuits, nextId, scanner>>

\* The await of pool.query returns: the statement ran, or the query failed.
QueryReturns(lawsuit, ok) ==
    /\ ok \/ failures < MaxFailures
    /\ lawsuits' = IF ok THEN Upsert(lawsuit) ELSE lawsuits
    /\ nextId' = IF ok THEN nextId + 1 ELSE nextId
    /\ failures' = IF ok THEN failures ELSE failures + 1
    /\ UNCHANGED <<companies, now, found, scanner>>

\* the fetch of the run's current legal name has ended
Returned(rec, outcome) ==
    [rec EXCEPT !.out = Append(@, ReturnEv(companies[rec.ci].legalNames[rec.ni],
                                           FetchFailed(outcome), Len(outcome.results)))]

\* the body of one pass of `for (const lawsuit of formattedResults)`, after the await
Saved(rec, ok) ==
    [rec EXCEPT !.savedCount = IF ok THEN @ + 1 ELSE @,
                !.si = @ + 1,
                !.out = Append(@, QueryEv(ToString(rec.formatted[rec.si].id), ok))]

(***************************************************************************)
(* POST /api/scan/lawsuits                                                 *)
(***************************************************************************)
\* scanAllCompanies up to its first await.  `onProgress` is no parameter of
\* the method and no variable of the module, so `if (onProgress)` throws a
\* ReferenceError before the loop over the companies starts; an invalid
\* hoursBack throws earlier, in toISOString.
scanAllCompanies(hoursBack) ==
    [ threw |-> TRUE,
      message |-> IF DateStringThrows(hoursBack) THEN "Invalid time value"
                  ELSE "onProgress is not defined" ]

\* a catch block that logs and throws the error on
Catch500Rethrows(rec, message) == [rec EXCEPT !.pc = "done", !.escaped = TRUE]

\* the catch block of the three plain handlers
Catch500(rec, message) ==
    [rec EXCEPT !.pc = "done",
                !.out = Append(@, JsonEv(500, [success |-> FALSE, error |-> message]))]

LawsuitsRequest(r, hoursBack) ==
    /\ Arrives(r)
    /\ LET rec == [run[r] EXCEPT !.kind = "lawsuits", !.hoursBack = hoursBack]
           scanResults == scanAllCompanies(hoursBack)
       IN  /\ scanResults.threw
           /\ run' = [run EXCEPT ![r] = Catch500(rec, scanResults.message)]
    /\ UNCHANGED <<companies, now, lawsuits, nextId, found, failures, scanner>>

(***************************************************************************)
(* POST /api/scan/company                                                  *)
(***************************************************************************)
CompanyRespond(rec) ==
    [rec EXCEPT !.pc = "done",
                !.out = Append(@, JsonEv(200, [ success |-> TRUE,
                                                 company |-> companies[rec.ci].name,
                                                 found |-> Len(rec.formatted),
                                                 saved |-> rec.savedCount ]))]

\* after the loop over the legal names: format, then the first query
CompanySave(rec) ==
    LET formattedResults == formatResults(rec.allCases)
        rec1 == [rec EXCEPT !.formatted = formattedResults, !.savedCount = 0, !.si = 1]
    IN  IF formattedResults = <<>> THEN CompanyRespond(rec1)
        ELSE [rec1 EXCEPT !.pc = "query"]

CompanySearch(rec, n) ==
    [rec EXCEPT !.ni = n, !.pc = "search",
                !.out = Append(@, SearchEv(rec.ci, companies[rec.ci].legalNames[n]))]

CompanyStart(rec) ==
    LET idx == find(rec.companyId)
    IN  IF rec.companyId = ""
        THEN [rec EXCEPT !.pc = "done",
                         !.out = Append(@, JsonEv(400, [ success |-> FALSE,
                                                          error |-> "companyId is required" ]))]
        ELSE IF idx = 0
        THEN [rec EXCEPT !.pc = "done",
                         !.out = Append(@, JsonEv(404, [ success |-> FALSE,
                                                          error |-> "Company not found" ]))]
        ELSE IF DateStringThrows(rec.hoursBack) THEN Catch500(rec, "Invalid time value")
        ELSE IF companies[idx].legalNames = <<>> THEN CompanySave([rec EXCEPT !.ci = idx])
        ELSE CompanySearch([rec EXCEPT !.ci = idx], 1)

CompanyRequest(r, companyId, hoursBack) ==
    /\ Arrives(r)
    /\ run' = [run EXCEPT ![r] =
                 CompanyStart([run[r] EXCEPT !.kind = "company", !.companyId = companyId,
                                             !.hoursBack = hoursBack])]
    /\ UNCHANGED <<companies, now, lawsuits, nextId, found, failures, scanner>>

CompanyGotCases(rec, got) ==
    IF got.threw THEN Catch500(rec, "search failed")
    ELSE [rec EXCEPT !.allCases =
                        IF Len(got.cases) > 0
                        THEN Append(@, Batch(companies[rec.ci],
                                             companies[rec.ci].legalNames[rec.ni], got.cases))
                        ELSE @,
                     !.pc = "sleep"]

CompanySearchReturn(r, outcome) ==
    /\ Awaits(r, "company", "search")
    /\ FetchReturns(outcome)
    /\ run' = [run EXCEPT ![r] = CompanyGotCases(Returned(run[r], outcome), searchCases(outcome))]

CompanySlept(rec) ==
    LET rec1 == [rec EXCEPT !.out = Append(@, SleepEv)]
    IN  IF rec.ni < Len(companies[rec.ci].legalNames)
        THEN CompanySearch(rec1, rec.ni + 1)
        ELSE CompanySave(rec1)

CompanySleepDone(r) ==
    /\ Awaits(r, "company", "sleep")
    /\ run' = [run EXCEPT ![r] = CompanySlept(run[r])]
    /\ TimerFires

CompanySaved(rec, ok) ==
    LET rec1 == Saved(rec, ok)
    IN  IF rec1.si > Len(rec1.formatted) THEN CompanyRespond(rec1) ELSE rec1

CompanyQueryReturn(r, ok) ==
    /\ Awaits(r, "company", "query")
    /\ QueryReturns(run[r].formatted[run[r].si], ok)
    /\ run' = [run EXCEPT ![r] = CompanySaved(run[r], ok)]

(***************************************************************************)
(* POST /api/scan/lawsuits-stream                                          *)
(***************************************************************************)
\* a catch block that writes the error frame and leaves the stream open
StreamCatchNoEnd(rec, message) ==
    [rec EXCEPT !.pc = "done",
                !.out = Append(@, Frame([status |-> "error", message |-> message]))]

\* the catch block of the two stream handlers
StreamCatch(rec, message) ==
    [rec EXCEPT !.pc = "done",
                !.out = @ \o << Frame([status |-> "error", message |-> message]), EndEv >>]

StreamComplete(rec) ==
    [rec EXCEPT !.pc = "done",
                !.out = @ \o << Frame([ status |-> "complete",
                                        found |-> Len(rec.formatted),
                                        saved |-> rec.savedCount ]), EndEv >>]

\* after the loop over the companies: the saving frame, format, the first query
StreamSave(rec) ==
    LET formattedResults == formatResults(rec.allCases)
        rec1 == [rec EXCEPT !.out = Append(@, Frame([status |-> "saving"])),
                            !.formatted = formattedResults, !.savedCount = 0, !.si = 1]
    IN  IF formattedResults = <<>> THEN StreamComplete(rec1)
        ELSE [rec1 EXCEPT !.pc = "query"]

\* Math.round((processedCount / totalCompanies) * 100)
Percentage(processedCount, totalCompanies) ==
    (200 * processedCount + totalCompanies) \div (2 * totalCompanies)

SearchingFrame(idx) ==
    Frame([ status |-> "searching", company |-> companies[idx].name,
            companyId |-> companies[idx].id, progress |-> idx,
            total |-> Len(companies),
            percentage |-> Percentage(idx, Len(companies)) ])

\* batch.cases.length summed over companyCases
RECURSIVE TotalCases(_)
TotalCases(batches) ==
    IF batches = <<>> THEN 0 ELSE Len(Head(batches).cases) + TotalCases(Tail(batches))

\* a company-complete frame that counts the batches, not their cases
CompanyCompleteFrameCountsBatches(idx, companyCases) ==
    Frame([ status |-> "company-complete", company |-> companies[idx].name,
            companyId |-> companies[idx].id, casesFound |-> Len(companyCases),
            progress |-> idx, total |-> Len(companies) ])

CompanyCompleteFrame(idx, companyCases) ==
    Frame([ status |-> "company-complete", company |-> companies[idx].name,
            companyId |-> companies[idx].id, casesFound |-> TotalCases(companyCases),
            progress |-> idx, total |-> Len(companies) ])

\* `for (const company of companies.companies)` from company idx on, up to the
\* next await: a company without legal names is entered and completed at once.
RECURSIVE StreamEnter(_, _)
StreamEnter(rec, idx) ==
    IF idx > Len(companies) THEN StreamSave(rec)
    ELSE LET rec1 == [rec EXCEPT !.ci = idx, !.companyCases = <<>>,
                                 !.out = Append(@, SearchingFrame(idx))]
         IN  IF companies[idx].legalNames = <<>>
             THEN StreamEnter([rec1 EXCEPT !.out = Append(@, CompanyCompleteFrame(idx, <<>>))],
                              idx + 1)
             ELSE [rec1 EXCEPT !.ni = 1, !.pc = "search",
                               !.out = Append(@, SearchEv(idx, companies[idx].legalNames[1]))]

StreamStart(rec) ==
    LET rec1 == [rec EXCEPT !.out = Append(@, Frame([ status |-> "started", progress |-> 0,
                                                      total |-> Len(companies) ]))]
    IN  IF DateStringThrows(rec.hoursBack) THEN StreamCatch(rec1, "Invalid time value")
        ELSE StreamEnter(rec1, 1)

StreamRequest(r, hoursBack) ==
    /\ Arrives(r)
    /\ run' = [run EXCEPT ![r] =
                 StreamStart([run[r] EXCEPT !.kind = "lawsuits-stream",
                                            !.hoursBack = hoursBack])]
    /\ UNCHANGED <<companies, now, lawsuits, nextId, found, failures, scanner>>

\* a loop that sleeps only after the last legal name of a company
StreamGotCasesNoDelay(rec, got) ==
    LET rec1 == [rec EXCEPT !.companyCases =
                                IF Len(got.cases) > 0
                                THEN Append(@, Batch(companies[rec.ci],
                                                     companies[rec.ci].legalNames[rec.ni],
                                                     got.cases))
                                ELSE @]
    IN  IF rec.ni < Len(companies[rec.ci].legalNames)
        THEN [rec1 EXCEPT !.ni = @ + 1, !.pc = "search",
                          !.out = Append(@, SearchEv(rec.ci,
                                                     companies[rec.ci].legalNames[rec.ni + 1]))]
        ELSE [rec1 EXCEPT !.pc = "sleep"]

StreamGotCases(rec, got) ==
    IF got.threw THEN StreamCatch(rec, "search failed")
    ELSE [rec EXCEPT !.companyCases =
                        IF Len(got.cases) > 0
                        THEN Append(@, Batch(companies[rec.ci],
                                             companies[rec.ci].legalNames[rec.ni], got.cases))
                        ELSE @,
                     !.pc = "sleep"]

StreamSearchReturn(r, outcome) ==
    /\ Awaits(r, "lawsuits-stream", "search")
    /\ FetchReturns(outcome)
    /\ run' = [run EXCEPT ![r] = StreamGotCases(Returned(run[r], outcome), searchCases(outcome))]

\* a loop that advances its index but searches the name it has just searched
StreamSleptRepeatsName(rec) ==
    LET rec1 == [rec EXCEPT !.out = Append(@, SleepEv)]
    IN  IF rec.ni < Len(companies[rec.ci].legalNames)
        THEN [rec1 EXCEPT !.ni = @ + 1, !.pc = "search",
                          !.out = Append(@, SearchEv(rec.ci,
                                                     companies[rec.ci].legalNames[rec.ni]))]
        ELSE StreamEnter([rec1 EXCEPT !.out = Append(@, CompanyCompleteFrame(rec.ci,
                                                                            rec.companyCases)),
                                      !.allCases = @ \o rec.companyCases,
                                      !.companyCases = <<>>],
                         rec.ci + 1)

StreamSlept(rec) ==
    LET rec1 == [rec EXCEPT !.out = Append(@, SleepEv)]
    IN  IF rec.ni < Len(companies[rec.ci].legalNames)
        THEN [rec1 EXCEPT !.ni = @ + 1, !.pc = "search",
                          !.out = Append(@, SearchEv(rec.ci,
                                                     companies[rec.ci].legalNames[rec.ni + 1]))]
        ELSE StreamEnter([rec1 EXCEPT !.out = Append(@, CompanyCompleteFrame(rec.ci,
                                                                            rec.companyCases)),
                                      !.allCases = @ \o rec.companyCases,
                                      !.companyCases = <<>>],
                         rec.ci + 1)

StreamSleepDone(r) ==
    /\ Awaits(r, "lawsuits-stream", "sleep")
    /\ run' = [run EXCEPT ![r] = StreamSlept(run[r])]
    /\ TimerFires

\* a save loop without the try around the query: the error reaches the outer catch
StreamSavedNoInnerTry(rec, ok) ==
    LET rec1 == Saved(rec, ok)
    IN  IF ~ok THEN StreamCatch(rec1, "query failed")
        ELSE IF rec1.si > Len(rec1.formatted) THEN StreamComplete(rec1) ELSE rec1

StreamSaved(rec, ok) ==
    LET rec1 == Saved(rec, ok)
    IN  IF rec1.si > Len(rec1.formatted) THEN StreamComplete(rec1) ELSE rec1

StreamQueryReturn(r, ok) ==
    /\ Awaits(r, "lawsuits-stream", "query")
    /\ QueryReturns(run[r].formatted[run[r].si], ok)
    /\ run' = [run EXCEPT ![r] = StreamSaved(run[r], ok)]

(***************************************************************************)
(* POST /api/scan/company-stream                                           *)
(***************************************************************************)
CompanyStreamComplete(rec) ==
    [rec EXCEPT !.pc = "done",
                !.out = @ \o << Frame([ status |-> "complete",
                                        company |-> companies[rec.ci].name,
                                        found |-> Len(rec.formatted),
                                        saved |-> rec.savedCount ]), EndEv >>]

CompanyStreamSave(rec) ==
    LET formattedResults == formatResults(rec.allCases)
        rec1 == [rec EXCEPT !.out = Append(@, Frame([status |-> "saving"])),
                            !.formatted = formattedResults, !.savedCount = 0, !.si = 1]
    IN  IF formattedResults = <<>> THEN CompanyStreamComplete(rec1)
        ELSE [rec1 EXCEPT !.pc = "query"]

\* one pass of the loop over the legal names, up to the await of searchCases
CompanyStreamSearch(rec, searchCount) ==
    LET legalNames == companies[rec.ci].legalNames
    IN  [rec EXCEPT !.ni = searchCount, !.pc = "search",
                    !.out = @ \o << Frame([ status |-> "searching",
                                            searchTerm |-> legalNames[searchCount],
                                            progress |-> searchCount,
                                            total |-> Len(legalNames) ]),
                                    SearchEv(rec.ci, legalNames[searchCount]) >>]

\* a validation that sends the error and the end without returning: the
\* handler goes on to read company.name of undefined and lands in the catch
CompanyStreamStartNoReturn(rec) ==
    LET idx == find(rec.companyId)
        rec1 == [rec EXCEPT !.ci = idx,
                            !.out = Append(@, Frame([ status |-> "started",
                                                      company |-> companies[idx].name ]))]
    IN  IF rec.companyId = ""
        THEN StreamCatch(StreamCatch(rec, "companyId is required"),
                         "Cannot read properties of undefined")
        ELSE IF idx = 0
        THEN StreamCatch(StreamCatch(rec, "Company not found"),
                         "Cannot read properties of undefined")
        ELSE IF DateStringThrows(rec.hoursBack) THEN StreamCatch(rec1, "Invalid time value")
        ELSE IF companies[idx].legalNames = <<>> THEN CompanyStreamSave(rec1)
        ELSE CompanyStreamSearch(rec1, 1)

CompanyStreamStart(rec) ==
    LET idx == find(rec.companyId)
        rec1 == [rec EXCEPT !.ci = idx,
                            !.out = Append(@, Frame([ status |-> "started",
                                                      company |-> companies[idx].name ]))]
    IN  IF rec.companyId = "" THEN StreamCatch(rec, "companyId is required")
        ELSE IF idx = 0 THEN StreamCatch(rec, "Company not found")
        ELSE IF DateStringThrows(rec.hoursBack) THEN StreamCatch(rec1, "Invalid time value")
        ELSE IF companies[idx].legalNames = <<>> THEN CompanyStreamSave(rec1)
        ELSE CompanyStreamSearch(rec1, 1)

CompanyStreamRequest(r, companyId, hoursBack) ==
    /\ Arrives(r)
    /\ run' = [run EXCEPT ![r] =
                 CompanyStreamStart([run[r] EXCEPT !.kind = "company-stream",
                                                   !.companyId = companyId,
                                                   !.hoursBack = hoursBack])]
    /\ UNCHANGED <<companies, now, lawsuits, nextId, found, failures, scanner>>

CompanyStreamGotCases(rec, got) ==
    IF got.threw THEN StreamCatch(rec, "search failed")
    ELSE IF Len(got.cases) > 0
    THEN [rec EXCEPT !.allCases = Append(@, Batch(companies[rec.ci],
                                                  companies[rec.ci].legalNames[rec.ni],
                                                  got.cases)),
                     !.out = Append(@, Frame([ status |-> "found",
                                               searchTerm |-> companies[rec.ci].legalNames[rec.ni],
                                               casesFound |-> Len(got.cases) ])),
                     !.pc = "sleep"]
    ELSE [rec EXCEPT !.pc = "sleep"]

CompanyStreamSearchReturn(r, outcome) ==
    /\ Awaits(r, "company-stream", "search")
    /\ FetchReturns(outcome)
    /\ run' = [run EXCEPT ![r] = CompanyStreamGotCases(Returned(run[r], outcome), searchCases(outcome))]

CompanyStreamSlept(rec) ==
    LET rec1 == [rec EXCEPT !.out = Append(@, SleepEv)]
    IN  IF rec.ni < Len(companies[rec.ci].legalNames)
        THEN CompanyStreamSearch(rec1, rec.ni + 1)
        ELSE CompanyStreamSave(rec1)

CompanyStreamSleepDone(r) ==
    /\ Awaits(r, "company-stream", "sleep")
    /\ run' = [run EXCEPT ![r] = CompanyStreamSlept(run[r])]
    /\ TimerFires

CompanyStreamSaved(rec, ok) ==
    LET rec1 == Saved(rec, ok)
    IN  IF rec1.si > Len(rec1.formatted) THEN CompanyStreamComplete(rec1) ELSE rec1

CompanyStreamQueryReturn(r, ok) ==
    /\ Awaits(r, "company-stream", "query")
    /\ QueryReturns(run[r].formatted[run[r].si], ok)
    /\ run' = [run EXCEPT ![r] = CompanyStreamSaved(run[r], ok)]

(***************************************************************************)
(* GET /api/scan/status                                                    *)
(***************************************************************************)
\* SELECT MAX(scanned_at) FROM lawsuits: NULL on an empty table
MaxScannedAt ==
    IF lawsuits = {} THEN <<"<null>">>
    ELSE << CHOOSE t \in { row.scanned_at : row \in lawsuits } :
               \A row \in lawsuits : row.scanned_at <= t >>

\* the body the route answers with when its query succeeds
ScanStatus == [success |-> TRUE, lastScan |-> MaxScannedAt]

(***************************************************************************)
(* The server                                                              *)
(***************************************************************************)
\* The server under MaxRuns requests, their handlers interleaved at the awaits.
Next ==
    \/ \E r \in Runs, hoursBack \in HoursBackInputs : LawsuitsRequest(r, hoursBack)
    \/ \E r \in Runs, companyId \in CompanyIds, hoursBack \in HoursBackInputs :
          CompanyRequest(r, companyId, hoursBack)
    \/ \E r \in Runs, outcome \in FetchOutcomes : CompanySearchReturn(r, outcome)
    \/ \E r \in Runs : CompanySleepDone(r)
    \/ \E r \in Runs, ok \in BOOLEAN : CompanyQueryReturn(r, ok)
    \/ \E r \in Runs, hoursBack \in HoursBackInputs : StreamRequest(r, hoursBack)
    \/ \E r \in Runs, outcome \in FetchOutcomes : StreamSearchReturn(r, outcome)
    \/ \E r \in Runs : StreamSleepDone(r)
    \/ \E r \in Runs, ok \in BOOLEAN : StreamQueryReturn(r, ok)
    \/ \E r \in Runs, companyId \in CompanyIds, hoursBack \in HoursBackInputs :
          CompanyStreamRequest(r, companyId, hoursBack)
    \/ \E r \in Runs, outcome \in FetchOutcomes : CompanyStreamSearchReturn(r, outcome)
    \/ \E r \in Runs : CompanyStreamSleepDone(r)
    \/ \E r \in Runs, ok \in BOOLEAN : CompanyStreamQueryReturn(r, ok)

Spec == Init /\ [][Next]_vars

\* The server under one request.
One == { 1 }

NextOne ==
    \/ \E r \in One, hoursBack \in HoursBackInputs : LawsuitsRequest(r, hoursBack)
    \/ \E r \in One, companyId \in CompanyIds, hoursBack \in HoursBackInputs :
          CompanyRequest(r, companyId, hoursBack)
    \/ \E r \in One, outcome \in FetchOutcomes : CompanySearchReturn(r, outcome)
    \/ \E r \in One : CompanySleepDone(r)
    \/ \E r \in One, ok \in BOOLEAN : CompanyQueryReturn(r, ok)
    \/ \E r \in One, hoursBack \in HoursBackInputs : StreamRequest(r, hoursBack)
    \/ \E r \in One, outcome \in FetchOutcomes : StreamSearchReturn(r, outcome)
    \/ \E r \in One : StreamSleepDone(r)
    \/ \E r \in One, ok \in BOOLEAN : StreamQueryReturn(r, ok)
    \/ \E r \in One, companyId \in CompanyIds, hoursBack \in HoursBackInputs :
          CompanyStreamRequest(r, companyId, hoursBack)
    \/ \E r \in One, outcome \in FetchOutcomes : CompanyStreamSearchReturn(r, outcome)
    \/ \E r \in One : CompanyStreamSleepDone(r)
    \/ \E r \in One, ok \in BOOLEAN : CompanyStreamQueryReturn(r, ok)

SpecOne == Init /\ [][NextOne]_vars

\* An await of the one request returns: the search, the sleep or the query.
AwaitReturns ==
    \E r \in One :
        \/ \E outcome \in FetchOutcomes : CompanySearchReturn(r, outcome)
        \/ CompanySleepDone(r)
        \/ \E ok \in BOOLEAN : CompanyQueryReturn(r, ok)
        \/ \E outcome \in FetchOutcomes : StreamSearchReturn(r, outcome)
        \/ StreamSleepDone(r)
        \/ \E ok \in BOOLEAN : StreamQueryReturn(r, ok)
        \/ \E outcome \in FetchOutcomes : CompanyStreamSearchReturn(r, outcome)
        \/ CompanyStreamSleepDone(r)
        \/ \E ok \in BOOLEAN : CompanyStreamQueryReturn(r, ok)

\* The server under one request, every fetch, timer and query of which
\* settles in the end: the promise a handler awaits is resolved or rejected,
\* and the event loop then resumes the handler.
SpecOneFair == Init /\ [][NextOne]_vars /\ WF_vars(AwaitReturns)

(***************************************************************************)
(* The scanner's pure methods, called directly: analyzeCase on one case    *)
(* record, formatResults on a list of batches.                             *)
(***************************************************************************)
\* the batches of a scan that found `cases`, the first k of them by one
\* search and the rest by the next, a sleep later
TwoBatches(cases, k) ==
    LET one == Batch(Acme, "Acme Inc", SubSeq(cases, 1, k))
        two == [Batch(Acme, "Acme Corp", SubSeq(cases, k + 1, Len(cases)))
                   EXCEPT !.scannedAt = now + 1]
    IN  (IF k > 0 THEN <<one>> ELSE <<>>) \o (IF k < Len(cases) THEN <<two>> ELSE <<>>)

\* Up to MaxCases records in one or two batches; the second search may return
\* a docket the first has returned.
\* a longer scan: four records by the first search, and the second search
\* returns two of these dockets again
LongScan == TwoBatches(<< CaseA, CaseD, CaseB, CaseC, CaseA, CaseC >>, 4)

FormatInputs ==
    { TwoBatches(p[1] \o p[2], Len(p[1])) : p \in
        { q \in SeqsUpTo(ScanPool, MaxCases) \X SeqsUpTo(ScanPool, MaxCases) :
            Len(q[1]) + Len(q[2]) <= MaxCases } }
    \cup { LongScan }

InitScanner ==
    /\ companies = <<>>
    /\ now = 0
    /\ lawsuits = {}
    /\ nextId = 1
    /\ run = [r \in Runs |-> IdleRun]
    /\ found = 0
    /\ failures = 0
    /\ \/ \E caseData \in AnalyzeInputs :
             scanner = [fn |-> "analyzeCase", args |-> <<caseData>>, ret |-> <<>>]
       \/ \E scanResults \in FormatInputs :
             scanner = [fn |-> "formatResults", args |-> <<scanResults>>, ret |-> <<>>]

AnalyzeCaseReturns ==
    /\ scanner.fn = "analyzeCase"
    /\ scanner.ret = <<>>
    /\ scanner' = [scanner EXCEPT !.ret = << analyzeCase(scanner.args[1]) >>]
    /\ UNCHANGED <<companies, now, lawsuits, nextId, run, found, failures>>

FormatResultsReturns ==
    /\ scanner.fn = "formatResults"
    /\ scanner.ret = <<>>
    /\ scanner' = [scanner EXCEPT !.ret = << formatResults(scanner.args[1]) >>]
    /\ UNCHANGED <<companies, now, lawsuits, nextId, run, found, failures>>

NextScanner == AnalyzeCaseReturns \/ FormatResultsReturns

SpecScanner == InitScanner /\ [][NextScanner]_vars

(***************************************************************************)
(* What a run has done, read off its `out`.                                *)
(***************************************************************************)
Last(s) == s[Len(s)]

Evs(r, e) == SelectSeq(run[r].out, LAMBDA x : x.ev = e)

Done(r) == run[r].pc = "done"

PlainKinds == { "lawsuits", "company" }
StreamKinds == { "lawsuits-stream", "company-stream" }
CompanyKinds == { "company", "company-stream" }

\* the roster knows the id
InRoster(companyId) == \E i \in 1..Len(companies) : companies[i].id = companyId

\* the case ids of the queries of run r that succeeded
SavedBy(r) ==
    LET q == Evs(r, "query") IN { q[i].case_id : i \in { j \in 1..Len(q) : q[j].ok } }

\* the run ended with its success result
EndedWell(r) ==
    /\ Done(r)
    /\ run[r].kind \in PlainKinds =>
          /\ Last(run[r].out).ev = "json"
          /\ Last(run[r].out).body.success
    /\ run[r].kind \in StreamKinds =>
          /\ Len(run[r].out) >= 2
          /\ Last(run[r].out) = EndEv
          /\ run[r].out[Len(run[r].out) - 1].ev = "frame"
          /\ run[r].out[Len(run[r].out) - 1].data.status = "complete"

(***************************************************************************)
(* C1: the table holds at most one row per case_id, whatever runs have     *)
(* interleaved: the number of rows is the number of distinct case ids that *)
(* the runs saved, so a case id two runs both found counts once.           *)
(***************************************************************************)
C1_OneRowPerCaseId ==
    /\ \A a, b \in lawsuits : a.case_id = b.case_id => a = b
    /\ Cardinality(lawsuits) = Cardinality(UNION { SavedBy(r) : r \in Runs })

\* two runs have both saved the same case id
C1_Witness ==
    \E r1, r2 \in Runs :
        /\ r1 # r2
        /\ Done(r1) /\ Done(r2)
        /\ SavedBy(r1) \cap SavedBy(r2) # {}

(***************************************************************************)
(* C2: a step never changes a stored row except that an upsert of the      *)
(* row's case_id sets its scanned_at to the time of that call; the content *)
(* columns, id and created_at stay as first inserted.                      *)
(***************************************************************************)
UpsertedNow(caseId) ==
    \E r \in Runs :
        /\ Len(run'[r].out) > Len(run[r].out)
        /\ run'[r].out[Len(run[r].out) + 1] = QueryEv(caseId, TRUE)

C2_FirstWriteWins ==
    [][\A row \in lawsuits :
          [row EXCEPT !.scanned_at = IF UpsertedNow(row.case_id) THEN now ELSE @]
              \in lawsuits']_vars

\* a row re-scanned later by an upsert that carried another cause
C2_Witness ==
    \E row \in lawsuits :
        /\ row.scanned_at > row.created_at
        /\ \E r \in Runs : \E i \in 1..Len(run[r].formatted) :
              /\ i < run[r].si
              /\ Evs(r, "query")[i].ok
              /\ ToString(run[r].formatted[i].id) = row.case_id
              /\ run[r].formatted[i].cause # row.cause

(***************************************************************************)
(* C3: a single-company scan, plain or streamed, whose companyId is in no  *)
(* roster entry ends at once with its not-found failure (404 and           *)
(* success:false, or the error frame and the end of the stream), after no  *)
(* search call and no upsert; without a companyId it fails the same way    *)
(* with "companyId is required".                                           *)
(***************************************************************************)
NotFoundResult(kind, status, message) ==
    IF kind = "company"
    THEN << JsonEv(status, [success |-> FALSE, error |-> message]) >>
    ELSE << Frame([status |-> "error", message |-> message]), EndEv >>

C3_NotFoundNoCalls ==
    \A r \in Runs :
        (run[r].kind \in CompanyKinds /\ ~InRoster(run[r].companyId)) =>
            /\ Done(r)
            /\ Evs(r, "search") = <<>>
            /\ Evs(r, "query") = <<>>
            /\ run[r].out = IF run[r].companyId = ""
                            THEN NotFoundResult(run[r].kind, 400, "companyId is required")
                            ELSE NotFoundResult(run[r].kind, 404, "Company not found")

\* a streamed scan of a company the roster does not hold has ended
C3_Witness ==
    \E r \in Runs :
        /\ run[r].kind = "company-stream"
        /\ run[r].companyId = "acme"
        /\ ~InRoster("acme")
        /\ Len(companies) > 0
        /\ Done(r)

(***************************************************************************)
(* C4: in the `out` of a run, between any two search calls lies the return *)
(* of the earlier one and, after it, a completed sleep: no run issues a    *)
(* search without a whole delay since its previous search.                 *)
(***************************************************************************)
C4_DelayBetweenSearches ==
    \A r \in Runs :
        \A i, j \in 1..Len(run[r].out) :
            (i < j /\ run[r].out[i].ev = "search" /\ run[r].out[j].ev = "search") =>
                \E m, k \in (i + 1)..(j - 1) :
                    /\ m < k
                    /\ run[r].out[m].ev = "returned"
                    /\ run[r].out[k].ev = "sleep"

\* a full streamed scan has searched in two companies, three legal names in all
C4_Witness ==
    \E r \in Runs :
        /\ run[r].kind = "lawsuits-stream"
        /\ Done(r)
        /\ Len(Evs(r, "search")) = 3

(***************************************************************************)
(* C5: a failed search is an empty result and nothing more: searchCases    *)
(* returns no cases and does not throw, the run goes on to its sleep, the  *)
(* batches of the run are exactly the searches that returned cases, and a  *)
(* run that has searched ends with its success result.                     *)
(***************************************************************************)
\* the legal names whose search returned at least one case, in order
ProductiveTerms(r) ==
    LET got == SelectSeq(run[r].out, LAMBDA x : x.ev = "returned" /\ x.cases > 0)
    IN  [i \in 1..Len(got) |-> got[i].term]

\* the search terms of the batches the run holds
BatchTerms(r) ==
    LET batches == run[r].allCases \o run[r].companyCases
    IN  [i \in 1..Len(batches) |-> batches[i].searchTerm]

C5_FailedSearchIsEmpty ==
    /\ \A outcome \in { FetchRejects, FetchNotOk } :
          searchCases(outcome) = [threw |-> FALSE, cases |-> <<>>]
    /\ \A r \in Runs :
          /\ BatchTerms(r) = ProductiveTerms(r)
          /\ \A i \in 1..Len(run[r].out) :
                (run[r].out[i].ev = "returned" /\ run[r].out[i].failed) =>
                    /\ run[r].out[i].cases = 0
                    /\ i < Len(run[r].out) => run[r].out[i + 1] = SleepEv
          /\ (Done(r) /\ Evs(r, "search") # <<>>) => EndedWell(r)

\* a run whose search failed went on to its next legal name and ended well
C5_Witness ==
    \E r \in Runs :
        /\ EndedWell(r)
        /\ \E i, j \in 1..Len(run[r].out) :
              /\ i < j
              /\ run[r].out[i].ev = "returned" /\ run[r].out[i].failed
              /\ run[r].out[j].ev = "search"

(***************************************************************************)
(* C6: a full scan through scanAllCompanies (POST /api/scan/lawsuits) with *)
(* a valid hoursBack searches each legal name of each high priority        *)
(* company once, in roster order, and no other name.                       *)
(***************************************************************************)
RECURSIVE LegalNamesOf(_)
LegalNamesOf(roster) ==
    IF roster = <<>> THEN <<>>
    ELSE (IF Head(roster).priority = "high" THEN Head(roster).legalNames ELSE <<>>)
         \o LegalNamesOf(Tail(roster))

SearchedTerms(r) == [i \in 1..Len(Evs(r, "search")) |-> Evs(r, "search")[i].term]

ValidScanAll(r) ==
    /\ run[r].kind = "lawsuits"
    /\ ~DateStringThrows(run[r].hoursBack)
    /\ Done(r)

C6_ScanAllSearchesHighPriority ==
    \A r \in Runs : ValidScanAll(r) => SearchedTerms(r) = LegalNamesOf(companies)

(***************************************************************************)
(* C7: a full scan through scanAllCompanies, called as the route calls it, *)
(* without a progress callback, completes without error: the request is    *)
(* answered with success.                                                  *)
(***************************************************************************)
C7_ScanAllCompletesWithoutCallback ==
    \A r \in Runs : ValidScanAll(r) => EndedWell(r)

(***************************************************************************)
(* C8: a full scan of a roster of N companies, streamed or not, reports    *)
(* N times that it enters a company, once per company in roster order and  *)
(* before the first search in that company, and then reports once that it  *)
(* has completed.                                                          *)
(***************************************************************************)
\* the companies a run has reported entering, in order
Entered(r) ==
    LET fr == SelectSeq(run[r].out, LAMBDA x : x.ev = "frame" /\ x.data.status = "searching")
    IN  [i \in 1..Len(fr) |-> fr[i].data.company]

RosterNames == [i \in 1..Len(companies) |-> companies[i].name]

\* every search of the run comes after the report of entering its company
EnteredBeforeSearch(r) ==
    \A j \in 1..Len(run[r].out) :
        run[r].out[j].ev = "search" =>
            \E i \in 1..(j - 1) :
                /\ run[r].out[i].ev = "frame"
                /\ run[r].out[i].data.status = "searching"
                /\ run[r].out[i].data.progress = run[r].out[j].ci

Completions(r) ==
    SelectSeq(run[r].out, LAMBDA x : x.ev = "frame" /\ x.data.status = "complete")

FullScanProgress(r) ==
    /\ Entered(r) = RosterNames
    /\ EnteredBeforeSearch(r)
    /\ Len(Completions(r)) = 1

C8_EnteringEventsPerCompany ==
    \A r \in Runs :
        ( /\ run[r].kind \in { "lawsuits", "lawsuits-stream" }
          /\ ~DateStringThrows(run[r].hoursBack)
          /\ Done(r) ) => FullScanProgress(r)

\* the streamed full scan alone does report so
StreamEnteringEvents ==
    \A r \in Runs :
        ( /\ run[r].kind = "lawsuits-stream"
          /\ ~DateStringThrows(run[r].hoursBack)
          /\ Done(r) ) => FullScanProgress(r)

(***************************************************************************)
(* C9: when an exception is raised in a run (the ReferenceError of         *)
(* scanAllCompanies, the RangeError of an invalid hoursBack), the handler  *)
(* catches it: the run is over, its caller has exactly one result, and     *)
(* that is the failure (500 with success:false, or the error frame and the *)
(* end of the stream), no exception has left a handler, and the server     *)
(* takes the next request.                                                 *)
(***************************************************************************)
Raised(r) ==
    \/ run[r].kind = "lawsuits"
    \/ /\ run[r].kind = "lawsuits-stream"
       /\ DateStringThrows(run[r].hoursBack)
    \/ /\ run[r].kind \in CompanyKinds
       /\ InRoster(run[r].companyId)
       /\ DateStringThrows(run[r].hoursBack)

TerminalFrames(r) ==
    SelectSeq(run[r].out, LAMBDA x : x.ev = "frame" /\ x.data.status \in { "complete", "error" })

OneFailureResult(r) ==
    /\ run[r].kind \in PlainKinds =>
          /\ Len(Evs(r, "json")) = 1
          /\ Last(run[r].out).ev = "json"
          /\ Last(run[r].out).status = 500
          /\ ~Last(run[r].out).body.success
    /\ run[r].kind \in StreamKinds =>
          /\ Len(TerminalFrames(r)) = 1
          /\ TerminalFrames(r)[1].data.status = "error"
          /\ Len(run[r].out) >= 2
          /\ run[r].out[Len(run[r].out) - 1] = TerminalFrames(r)[1]
          /\ Last(run[r].out) = EndEv

C9_ExceptionCaught ==
    /\ \A r \in Runs : ~run[r].escaped
    /\ \A r \in Runs : Raised(r) => (Done(r) /\ OneFailureResult(r))
    /\ \A q \in Runs :
          (run[q].pc = "idle" /\ \A p \in 1..(q - 1) : run[p].pc # "idle") =>
              ENABLED StreamRequest(q, "168")

\* after a run that raised, a later request was served to its success
C9_Witness ==
    \E r, q \in Runs :
        /\ r < q
        /\ Raised(r)
        /\ EndedWell(q)
        /\ SavedBy(q) # {}

(***************************************************************************)
(* C10: on a stream, at most one terminal frame (complete or error) is     *)
(* ever written, the end of the stream follows it at once and is the last  *)
(* thing written, and the run is over exactly when the stream has ended.   *)
(***************************************************************************)
C10_OneTerminalFrameThenEnd ==
    \A r \in Runs :
        run[r].kind \in StreamKinds =>
            LET o == run[r].out
            IN  /\ Len(TerminalFrames(r)) <= 1
                /\ Len(Evs(r, "end")) <= 1
                /\ \A i \in 1..Len(o) :
                      /\ o[i] = EndEv =>
                            /\ i = Len(o)
                            /\ i > 1
                            /\ o[i - 1].ev = "frame"
                            /\ o[i - 1].data.status \in { "complete", "error" }
                      /\ (o[i].ev = "frame" /\ o[i].data.status \in { "complete", "error" }) =>
                            /\ i + 1 = Len(o)
                            /\ o[i + 1] = EndEv
                /\ Done(r) <=> (Len(o) > 0 /\ Last(o) = EndEv)
                /\ Done(r) => Len(TerminalFrames(r)) = 1

\* a streamed company scan has saved rows and ended with its complete frame
C10_Witness ==
    \E r \in Runs :
        /\ run[r].kind = "company-stream"
        /\ Done(r)
        /\ TerminalFrames(r)[1].data.status = "complete"
        /\ Len(Evs(r, "query")) > 0

(***************************************************************************)
(* C11: a failed upsert does not end the saving.  The upsert attempts of a *)
(* run are, in order, the formatted lawsuits, each once; a run that had    *)
(* lawsuits to save ends with its success result, whose found is the       *)
(* number of formatted lawsuits (the cases its searches returned) and      *)
(* whose saved is the number of attempts that succeeded, saved <= found.   *)
(***************************************************************************)
Attempted(r) == [i \in 1..Len(Evs(r, "query")) |-> Evs(r, "query")[i].case_id]

FormattedIds(r) == [i \in 1..Len(run[r].formatted) |-> ToString(run[r].formatted[i].id)]

Succeeded(r) == Len(SelectSeq(Evs(r, "query"), LAMBDA q : q.ok))

RECURSIVE SumCases(_)
SumCases(returns) ==
    IF returns = <<>> THEN 0 ELSE Head(returns).cases + SumCases(Tail(returns))

\* the counts in the result the run has sent
Reported(r) ==
    IF run[r].kind \in PlainKinds THEN Last(run[r].out).body
    ELSE run[r].out[Len(run[r].out) - 1].data

C11_FailedUpsertCounted ==
    \A r \in Runs :
        /\ Len(Attempted(r)) <= Len(FormattedIds(r))
        /\ Attempted(r) = SubSeq(FormattedIds(r), 1, Len(Attempted(r)))
        /\ (Done(r) /\ run[r].formatted # <<>>) =>
              /\ Attempted(r) = FormattedIds(r)
              /\ EndedWell(r)
              /\ Len(run[r].formatted) = SumCases(Evs(r, "returned"))
              /\ Reported(r).found = Len(run[r].formatted)
              /\ Reported(r).saved = Succeeded(r)
              /\ Reported(r).saved <= Reported(r).found

\* a full streamed scan whose first upsert failed and whose second succeeded
C11_Witness ==
    \E r \in Runs :
        /\ run[r].kind = "lawsuits-stream"
        /\ Done(r)
        /\ Len(Evs(r, "query")) = 2
        /\ ~Evs(r, "query")[1].ok
        /\ Evs(r, "query")[2].ok

(***************************************************************************)
(* C12: the searches a run has issued are, in order, the first legal names *)
(* of its scan: company after company in roster order, and within a        *)
(* company in the declared order of its legal names; a run that ends well  *)
(* has issued them all.  At most one search of a run is in flight: every   *)
(* search is followed by its return before anything else happens in the    *)
(* run.                                                                    *)
(***************************************************************************)
RECURSIVE AllLegalNames(_)
AllLegalNames(roster) ==
    IF roster = <<>> THEN <<>> ELSE Head(roster).legalNames \o AllLegalNames(Tail(roster))

\* the legal names run r is to search, in order
ToSearch(r) ==
    CASE run[r].kind = "lawsuits-stream" -> AllLegalNames(companies)
      [] run[r].kind = "lawsuits" -> LegalNamesOf(companies)
      [] run[r].kind \in CompanyKinds /\ InRoster(run[r].companyId) ->
            companies[CHOOSE i \in 1..Len(companies) :
                         companies[i].id = run[r].companyId].legalNames
      [] OTHER -> <<>>

IsPrefix(s, t) == Len(s) <= Len(t) /\ s = SubSeq(t, 1, Len(s))

InFlight(r) == Len(Evs(r, "search")) - Len(Evs(r, "returned"))

C12_SearchesInOrderOneAtATime ==
    \A r \in Runs :
        /\ IsPrefix(SearchedTerms(r), ToSearch(r))
        /\ EndedWell(r) => SearchedTerms(r) = ToSearch(r)
        /\ InFlight(r) \in { 0, 1 }
        /\ InFlight(r) = 1 <=> run[r].pc = "search"
        /\ \A i \in 1..Len(run[r].out) :
              run[r].out[i].ev = "search" =>
                  /\ i = Len(run[r].out) => InFlight(r) = 1
                  /\ i < Len(run[r].out) =>
                        /\ run[r].out[i + 1].ev = "returned"
                        /\ run[r].out[i + 1].term = run[r].out[i].term

\* a full streamed scan has gone through the roster of Acme and Beta
C12_Witness ==
    \E r \in Runs :
        /\ run[r].kind = "lawsuits-stream"
        /\ EndedWell(r)
        /\ SearchedTerms(r) = << "Acme Inc", "Acme Corp", "Beta LLC" >>

(***************************************************************************)
(* C13: at most one scan run is active at any time: no two requests are    *)
(* both between their start and their terminal result.                     *)
(***************************************************************************)
\* the run has started and has not sent its terminal result
Active(r) == run[r].pc \in { "search", "sleep", "query" }

C13_AtMostOneActiveRun ==
    \A r1, r2 \in Runs : (Active(r1) /\ Active(r2)) => r1 = r2

(***************************************************************************)
(* C14: what formatResults returns is sorted: of two adjacent records the  *)
(* first has the lower or the same priority rank (high 0, medium 1,        *)
(* low 2), and with the same rank the later or the same dateFiled.  A      *)
(* dateFiled that is missing or no date counts as the earliest date.       *)
(***************************************************************************)
\* what a direct call of formatResults has returned
Formatted == scanner.ret[1]

FormatReturned == scanner.fn = "formatResults" /\ scanner.ret # <<>>

priorityRank(f) ==
    CASE f.analysis.priority = "high" -> 0
      [] f.analysis.priority = "medium" -> 1
      [] f.analysis.priority = "low" -> 2

Dated(f) == ~DateValue(f.dateFiled).nan

\* the day filed, an undated record before every day
FiledOn(f) == IF Dated(f) THEN DateValue(f.dateFiled).t ELSE -1

InOrder(a, b) ==
    /\ priorityRank(a) <= priorityRank(b)
    /\ priorityRank(a) = priorityRank(b) => FiledOn(a) >= FiledOn(b)

C14_FormatSorted ==
    FormatReturned =>
        \A i \in 1..(Len(Formatted) - 1) : InOrder(Formatted[i], Formatted[i + 1])

\* the records are sorted when every dateFiled is a date
FormatSortedWhenDated ==
    (FormatReturned /\ \A i \in 1..Len(Formatted) : Dated(Formatted[i])) =>
        \A i \in 1..(Len(Formatted) - 1) : InOrder(Formatted[i], Formatted[i + 1])

\* the priority tiers are in order whatever the dates
FormatSortedByPriority ==
    FormatReturned =>
        \A i \in 1..(Len(Formatted) - 1) :
            priorityRank(Formatted[i]) <= priorityRank(Formatted[i + 1])

(***************************************************************************)
(* C15: in what formatResults returns, a record whose dateFiled is missing *)
(* or no date comes after every record of its priority that has a date.    *)
(***************************************************************************)
C15_UndatedSortsOldest ==
    FormatReturned =>
        \A i, j \in 1..Len(Formatted) :
            ( /\ i < j
              /\ priorityRank(Formatted[i]) = priorityRank(Formatted[j])
              /\ ~Dated(Formatted[i]) ) => ~Dated(Formatted[j])

(***************************************************************************)
(* C16: analyzeCase returns priority low when no keyword of the list       *)
(* occurs in the text of the record, medium when exactly one does, high    *)
(* when two or more do.  The text is caseName, docketNumber and cause      *)
(* with a missing field as the empty string; a keyword occurs whatever the *)
(* case of the letters.                                                    *)
(***************************************************************************)
\* what a direct call of analyzeCase was given, and what it has returned
Analysed == scanner.args[1]
Analysis == scanner.ret[1]

AnalyzeReturned == scanner.fn = "analyzeCase" /\ scanner.ret # <<>>

FieldText(x) == IF x = Undefined THEN <<"">> ELSE x

TextOf(caseData) ==
    FieldText(caseData.caseName) \o FieldText(caseData.docketNumber)
        \o FieldText(caseData.cause)

\* the keywords of the list that occur in the record, by their place in the list
Matches(caseData) ==
    { k \in 1..Len(interestingKeywords) :
        includes(toLowerCase(TextOf(caseData)), toLowerCase(interestingKeywords[k])) }

C16_PriorityByKeywordCount ==
    AnalyzeReturned =>
        LET n == Cardinality(Matches(Analysed))
        IN  /\ n = 0 => Analysis.priority = "low"
            /\ n = 1 => Analysis.priority = "medium"
            /\ n >= 2 => Analysis.priority = "high"

\* a record without caseName and docketNumber whose cause holds three
\* keywords, one of them capitalised
C16_Witness ==
    /\ AnalyzeReturned
    /\ Analysed.caseName = Undefined
    /\ Analysed.docketNumber = Undefined
    /\ Cardinality(Matches(Analysed)) = 3
    /\ Analysis.priority = "high"

(***************************************************************************)
(* C17: analyzeCase returns isInteresting true exactly when the keywords   *)
(* it returns are not empty.                                               *)
(***************************************************************************)
C17_InterestingIffKeywords ==
    AnalyzeReturned => (Analysis.isInteresting <=> Len(Analysis.keywords) > 0)

\* a record with exactly one keyword is interesting
C17_Witness ==
    /\ AnalyzeReturned
    /\ Len(Analysis.keywords) = 1
    /\ Analysis.isInteresting

(***************************************************************************)
(* C18: the progress value of the process follows its lifecycle.  A full   *)
(* scan through scanAllCompanies that is over has reported, in order, one  *)
(* reset before its first company (currentCompany 0) and one update per    *)
(* company it processed, and once no run is active the snapshot that       *)
(* GET /api/scan/status returns says isScanning false.                     *)
(***************************************************************************)
\* the progress updates run r has made, in order: the company index of each
ProgressUpdates(r) ==
    [i \in 1..Len(Evs(r, "progress")) |-> Evs(r, "progress")[i].currentCompany]

HighPriority == SelectSeq(companies, LAMBDA c : c.priority = "high")

C18_ScanProgressLifecycle ==
    \A r \in Runs :
        ValidScanAll(r) =>
            /\ ProgressUpdates(r) = [i \in 1..(Len(HighPriority) + 1) |-> i - 1]
            /\ (\A q \in Runs : ~Active(q)) =>
                  /\ "isScanning" \in DOMAIN ScanStatus
                  /\ ScanStatus.isScanning = FALSE

(***************************************************************************)
(* C19: the frames of a full streamed scan that ended well are: started    *)
(* with total = the length of the roster; for each company in roster order *)
(* a searching frame and then a company-complete frame of that company,    *)
(* both with progress = the place of the company (1 to total), all         *)
(* searches of the company between the two, and casesFound = the cases     *)
(* those searches returned; then saving; then complete.                    *)
(***************************************************************************)
Frames(r) ==
    LET fr == Evs(r, "frame") IN [i \in 1..Len(fr) |-> fr[i].data]

\* the cases the searches of run r in company i returned
RECURSIVE CasesFoundIn(_, _, _)
CasesFoundIn(r, i, k) ==
    IF k >= Len(run[r].out) THEN 0
    ELSE (IF run[r].out[k].ev = "search" /\ run[r].out[k].ci = i
          THEN run[r].out[k + 1].cases ELSE 0) + CasesFoundIn(r, i, k + 1)

\* out[k] is the frame of that status for company i
IsFrameOf(r, k, status, i) ==
    /\ run[r].out[k].ev = "frame"
    /\ run[r].out[k].data.status = status
    /\ run[r].out[k].data.progress = i

C19_StreamFrameSequence ==
    \A r \in Runs :
        (run[r].kind = "lawsuits-stream" /\ EndedWell(r)) =>
            LET f == Frames(r)
                total == Len(companies)
            IN  /\ Len(f) = 2 * total + 3
                /\ f[1].status = "started"
                /\ f[1].total = total
                /\ \A i \in 1..total :
                      /\ f[2 * i].status = "searching"
                      /\ f[2 * i].company = companies[i].name
                      /\ f[2 * i].progress = i
                      /\ f[2 * i + 1].status = "company-complete"
                      /\ f[2 * i + 1].company = companies[i].name
                      /\ f[2 * i + 1].progress = i
                      /\ f[2 * i + 1].casesFound = CasesFoundIn(r, i, 1)
                /\ f[2 * total + 2].status = "saving"
                /\ f[2 * total + 3].status = "complete"
                /\ \A j \in 1..Len(run[r].out) :
                      run[r].out[j].ev = "search" =>
                          \E a \in 1..(j - 1), b \in (j + 1)..Len(run[r].out) :
                              /\ IsFrameOf(r, a, "searching", run[r].out[j].ci)
                              /\ IsFrameOf(r, b, "company-complete", run[r].out[j].ci)

\* a full streamed scan of Acme and Beta in which one search returned two cases
C19_Witness ==
    \E r \in Runs :
        /\ run[r].kind = "lawsuits-stream"
        /\ EndedWell(r)
        /\ Len(companies) = 2
        /\ \E i \in 1..Len(Evs(r, "returned")) : Evs(r, "returned")[i].cases = 2

(***************************************************************************)
(* C20: when every search, sleep and query settles, a run that has started *)
(* reaches its terminal result: the plain routes have answered, the        *)
(* streams have written their complete or error frame and ended.           *)
(***************************************************************************)
Started(r) == run[r].pc # "idle"

Terminated(r) ==
    /\ Done(r)
    /\ run[r].kind \in PlainKinds =>
          /\ Len(Evs(r, "json")) = 1
          /\ Last(run[r].out).ev = "json"
    /\ run[r].kind \in StreamKinds =>
          /\ Len(TerminalFrames(r)) = 1
          /\ Last(run[r].out) = EndEv

C20_RunReachesTerminalOutcome ==
    \A r \in Runs : Started(r) ~> Terminated(r)

\* a plain company scan is over after two searches, two sleeps and two upserts
C20_Witness ==
    \E r \in Runs :
        /\ run[r].kind = "company"
        /\ Terminated(r)
        /\ Len(Evs(r, "sleep")) = 2
        /\ Len(Evs(r, "query")) = 2

(***************************************************************************)
(* C21: the sort of formatResults is stable: two records of the same       *)
(* priority and the same dateFiled come out in the order they have in the  *)
(* flattened input (batch by batch, case by case within a batch).          *)
(***************************************************************************)
\* what a direct call of formatResults was given
ScanResults == scanner.args[1]

\* the records before the sort, in input order
Flattened == Flatten(ScanResults)

SameKeys(a, b) ==
    /\ a.analysis.priority = b.analysis.priority
    /\ a.dateFiled = b.dateFiled

C21_SortStable ==
    FormatReturned =>
        \A i, j \in 1..Len(Flattened) :
            (i < j /\ SameKeys(Flattened[i], Flattened[j])) =>
                \E a, b \in 1..Len(Formatted) :
                    /\ a < b
                    /\ Formatted[a] = Flattened[i]
                    /\ Formatted[b] = Flattened[j]

\* the order is kept when every dateFiled is a date: the comparator is then
\* a consistent one, and the insertion places a record after its equals
SortStableWhenDated ==
    (FormatReturned /\ \A i \in 1..Len(Flattened) : Dated(Flattened[i])) =>
        \A i, j \in 1..Len(Flattened) :
            (i < j /\ SameKeys(Flattened[i], Flattened[j])) =>
                \E a, b \in 1..Len(Formatted) :
                    /\ a < b
                    /\ Formatted[a] = Flattened[i]
                    /\ Formatted[b] = Flattened[j]

\* dockets 4 and 6 have the same keys, and docket 3, filed later, was given
\* between them: the sort moved it to the front and kept 4 before 6
SortKeptOrder ==
    /\ FormatReturned
    /\ [i \in 1..Len(Flattened) |-> Flattened[i].id] = << 4, 3, 6 >>
    /\ [i \in 1..Len(Formatted) |-> Formatted[i].id] = << 3, 4, 6 >>

\* the longer scan with an undated record: docket 3 of the second batch has
\* come out before docket 3 of the first
SortSwappedEquals ==
    /\ FormatReturned
    /\ ScanResults = LongScan
    /\ [i \in 1..Len(Formatted) |-> << Formatted[i].id, Formatted[i].scannedAt >>]
           = << <<1, 0>>, <<1, 1>>, <<3, 1>>, <<4, 0>>, <<2, 0>>, <<3, 0>> >>

(***************************************************************************)
(* C22: formatResults drops nothing and merges nothing: what it returns    *)
(* has exactly one record for every case of every batch it was given, so   *)
(* as many records as the batches have cases, and each record carries the  *)
(* fields of its case and the company, companyId and scannedAt of its      *)
(* batch.  A docket found under two legal names gives two records, and     *)
(* the found of the result a run sends counts it twice.                    *)
(***************************************************************************)
\* the (batch, case) positions of a list of batches
Pairs(batches) ==
    UNION { { << b, i >> : i \in 1..Len(batches[b].cases) } : b \in 1..Len(batches) }

\* what the record of the case at position p has to carry
PairRecord(batches, p) ==
    LET result == batches[p[1]]
        caseData == result.cases[p[2]]
    IN  [ id |-> caseData.docket_id, caseName |-> caseData.caseName,
          docketNumber |-> caseData.docketNumber, court |-> caseData.court,
          dateFiled |-> caseData.dateFiled, cause |-> caseData.cause,
          company |-> result.company, companyId |-> result.companyId,
          scannedAt |-> result.scannedAt ]

\* the same fields of a formatted record
Carried(f) ==
    [ id |-> f.id, caseName |-> f.caseName, docketNumber |-> f.docketNumber,
      court |-> f.court, dateFiled |-> f.dateFiled, cause |-> f.cause,
      company |-> f.company, companyId |-> f.companyId, scannedAt |-> f.scannedAt ]

\* as many records carry the fields of a position as positions have them
OnePerPair(batches, formatted) ==
    /\ Len(formatted) = TotalCases(batches)
    /\ \A p \in Pairs(batches) :
          Cardinality({ k \in 1..Len(formatted) :
                          Carried(formatted[k]) = PairRecord(batches, p) })
            = Cardinality({ q \in Pairs(batches) :
                              PairRecord(batches, q) = PairRecord(batches, p) })

\* a docket that two batches of the list hold
InTwoBatches(batches) ==
    \E b1, b2 \in 1..Len(batches) :
        /\ b1 < b2
        /\ \E i \in 1..Len(batches[b1].cases), j \in 1..Len(batches[b2].cases) :
              batches[b1].cases[i].docket_id = batches[b2].cases[j].docket_id

C22_FlattenKeepsEveryCase ==
    /\ FormatReturned => OnePerPair(ScanResults, Formatted)
    /\ \A r \in Runs :
          /\ run[r].formatted # <<>> => OnePerPair(run[r].allCases, run[r].formatted)
          /\ (Done(r) /\ run[r].formatted # <<>>) =>
                Reported(r).found = TotalCases(run[r].allCases)

\* a scan that found one docket under both legal names of a company has
\* ended: two records of that docket, and found is 2
C22_Witness ==
    \E r \in Runs :
        /\ Done(r)
        /\ InTwoBatches(run[r].allCases)
        /\ Len(run[r].formatted) = 2
        /\ run[r].formatted[1].id = run[r].formatted[2].id
        /\ Reported(r).found = 2

\* the same by a direct call: the two batches hold one docket, with a record
\* of another docket between them
FormatKeptBoth ==
    /\ FormatReturned
    /\ InTwoBatches(ScanResults)
    /\ Len(Formatted) = 3
    /\ Cardinality({ k \in 1..3 : Formatted[k].id = 1 }) = 2

====
